---- MODULE Spec2Model ----
(***************************************************************************)
(* Model of the sketch gallery: the server (server.js) with its slug       *)
(* generator, URL normalizer, field validators, sanitizer, the two JSON    *)
(* stores (sketches.json, folders.json), the generated config artifact,    *)
(* the folder and sketch HTTP handlers and the Basic auth guard in front   *)
(* of them, and the hash routing of the viewer (src/main.js).              *)
(*                                                                         *)
(* JavaScript strings are TLA+ strings over printable ASCII, tab, newline  *)
(* and the accented Latin-1 letters listed in AccentStr.  Ch(s, i) is the  *)
(* i-th character of s as a one-character string.                          *)
(***************************************************************************)
EXTENDS Integers, Sequences, FiniteSets, TLC

\* ------------------------------------------------------------------------
\* Bounds of the model
\* ------------------------------------------------------------------------
MaxSketches == 2
MaxPasses == 2
MaxSegments == 3
MaxNameLen == 2
MaxRequests == 3
MaxClock == 2
MaxRedirects == 4

\* ------------------------------------------------------------------------
\* String primitives (String.prototype methods used by server.js)
\* ------------------------------------------------------------------------
\* s.slice(i - 1, j): the characters i..j of s that exist
Slice(s, i, j) ==
    LET last == IF j > Len(s) THEN Len(s) ELSE j
    IN IF i < 1 \/ i > last THEN "" ELSE SubSeq(s, i, last)

Ch(s, i) == Slice(s, i, i)

From(s, i) == Slice(s, i, Len(s))

CharsOf(s) == {Ch(s, i) : i \in 1..Len(s)}

UpperStr == "ABCDEFGHIJKLMNOPQRSTUVWXYZÀÁÂÃÄÅÇÈÉÊËÌÍÎÏÑÒÓÔÕÖÙÚÛÜÝ"
LowerStr == "abcdefghijklmnopqrstuvwxyzàáâãäåçèéêëìíîïñòóôõöùúûüý"
AccentStr == "àáâãäåçèéêëìíîïñòóôõöùúûüýÿÀÁÂÃÄÅÇÈÉÊËÌÍÎÏÑÒÓÔÕÖÙÚÛÜÝ"
BaseStr == "aaaaaaceeeeiiiinooooouuuuyyAAAAAACEEEEIIIINOOOOOUUUUY"

LowerOf == [c \in CharsOf(UpperStr) |->
              Ch(LowerStr, CHOOSE i \in 1..Len(UpperStr) : Ch(UpperStr, i) = c)]

BaseOf == [c \in CharsOf(AccentStr) |->
              Ch(BaseStr, CHOOSE i \in 1..Len(AccentStr) : Ch(AccentStr, i) = c)]

\* [a-z0-9] and \w of the regular expressions
SlugChars == CharsOf("abcdefghijklmnopqrstuvwxyz0123456789")
WordChars == CharsOf("abcdefghijklmnopqrstuvwxyzABCDEFGHIJKLMNOPQRSTUVWXYZ0123456789_")

\* \s and the characters String.prototype.trim removes
WhiteSpace == {" ", "\t", "\n", "\r", "\f"}

\* [\x00-\x1F\x7F] within the alphabet
ControlChars == {"\t", "\n", "\r", "\f"}

RECURSIVE toLowerCase(_)
toLowerCase(s) ==
    IF s = "" THEN ""
    ELSE (IF Ch(s, 1) \in DOMAIN LowerOf THEN LowerOf[Ch(s, 1)] ELSE Ch(s, 1))
            \o toLowerCase(Tail(s))

RECURSIVE trimStart(_)
trimStart(s) ==
    IF s # "" /\ Ch(s, 1) \in WhiteSpace THEN trimStart(Tail(s)) ELSE s

RECURSIVE trimEnd(_)
trimEnd(s) ==
    IF s # "" /\ Ch(s, Len(s)) \in WhiteSpace
    THEN trimEnd(Slice(s, 1, Len(s) - 1)) ELSE s

trim(s) == trimEnd(trimStart(s))

startsWith(s, p) == Slice(s, 1, Len(p)) = p

endsWith(s, p) == Len(s) >= Len(p) /\ From(s, Len(s) - Len(p) + 1) = p

\* first index at which p occurs in s, 0 when it does not (String.indexOf + 1)
IndexOf(s, p) ==
    LET hits == {i \in 1..(Len(s) - Len(p) + 1) : startsWith(From(s, i), p)}
    IN IF hits = {} THEN 0 ELSE CHOOSE i \in hits : \A j \in hits : i <= j

includes(s, p) == IndexOf(s, p) # 0

\* s.split(" ").pop(): the part of s after its last space
RECURSIVE LastToken(_)
LastToken(s) ==
    IF includes(s, " ") THEN LastToken(From(s, IndexOf(s, " ") + 1)) ELSE s

\* s.replace(/[^...]/g, ""): keep only the characters of the set keep
RECURSIVE KeepOnly(_, _)
KeepOnly(s, keep) ==
    IF s = "" THEN ""
    ELSE (IF Ch(s, 1) \in keep THEN Ch(s, 1) ELSE "") \o KeepOnly(Tail(s), keep)

RECURSIVE DropWhile(_, _)
DropWhile(s, set) ==
    IF s # "" /\ Ch(s, 1) \in set THEN DropWhile(Tail(s), set) ELSE s

\* s.replace(/[set]+/g, r): every maximal run of characters of set becomes r
RECURSIVE ReplaceRuns(_, _, _)
ReplaceRuns(s, set, r) ==
    IF s = "" THEN ""
    ELSE IF Ch(s, 1) \in set THEN r \o ReplaceRuns(DropWhile(s, set), set, r)
    ELSE Ch(s, 1) \o ReplaceRuns(Tail(s), set, r)

RECURSIVE DropWhileEnd(_, _)
DropWhileEnd(s, set) ==
    IF s # "" /\ Ch(s, Len(s)) \in set
    THEN DropWhileEnd(Slice(s, 1, Len(s) - 1), set) ELSE s

\* ------------------------------------------------------------------------
\* Slug generator
\* ------------------------------------------------------------------------
\* NFD decomposition followed by removal of the combining marks
RECURSIVE normalizeAscii(_)
normalizeAscii(s) ==
    IF s = "" THEN ""
    ELSE (IF Ch(s, 1) \in DOMAIN BaseOf THEN BaseOf[Ch(s, 1)] ELSE Ch(s, 1))
            \o normalizeAscii(Tail(s))

titleSlugOf(title) ==
    LET lowered  == trim(toLowerCase(normalizeAscii(title)))
        filtered == KeepOnly(lowered, SlugChars \cup WhiteSpace \cup {"-"})
        hyphened == ReplaceRuns(ReplaceRuns(filtered, WhiteSpace, "-"), {"-"}, "-")
    IN DropWhileEnd(DropWhile(hyphened, {"-"}), {"-"})

lastNameOf(author) == toLowerCase(LastToken(trim(normalizeAscii(author))))

generateSlug(title, author) == titleSlugOf(title) \o "-" \o lastNameOf(author)

\* ------------------------------------------------------------------------
\* URL normalization helpers
\* ------------------------------------------------------------------------
\* new URL(s) for URLs of the shape scheme://host/path (no port, query,
\* fragment, credentials or characters that need escaping): ok is FALSE
\* where the constructor throws.
InvalidUrl == [ok |-> FALSE, protocol |-> "", hostname |-> "", pathname |-> ""]

\* the URL object for the scheme and for what follows "://", whose first
\* "/" is at index j (0 when there is none)
UrlParts(scheme, rest, j) ==
    LET host == IF j = 0 THEN rest ELSE Slice(rest, 1, j - 1)
    IN IF host = "" THEN InvalidUrl
       ELSE [ok |-> TRUE,
             protocol |-> toLowerCase(scheme) \o ":",
             hostname |-> toLowerCase(host),
             pathname |-> IF j = 0 THEN "/" ELSE From(rest, j)]

SplitAuthority(scheme, rest) == UrlParts(scheme, rest, IndexOf(rest, "/"))

ParseUrl(s) ==
    LET i == IndexOf(s, "://")
    IN IF i <= 1 \/ CharsOf(s) \cap WhiteSpace # {} THEN InvalidUrl
       ELSE SplitAuthority(Slice(s, 1, i - 1), From(s, i + 3))

\* URL.prototype.toString
UrlToString(u) == u.protocol \o "//" \o u.hostname \o u.pathname

\* pathname.replace(/\/(sketches|edit)\//, "/full/"): the pattern has no g
\* flag, so only the leftmost match is replaced
ReplaceFirstSegment(path) ==
    LET hits == {i \in 1..Len(path) :
                    \/ startsWith(From(path, i), "/sketches/")
                    \/ startsWith(From(path, i), "/edit/")}
        i    == CHOOSE k \in hits : \A j \in hits : k <= j
        n    == IF startsWith(From(path, i), "/sketches/") THEN 10 ELSE 6
    IN IF hits = {} THEN path
       ELSE Slice(path, 1, i - 1) \o "/full/" \o From(path, i + n)

\* the p5 branch once new URL(urlStr) has given u
RewriteP5(rawUrl, u) ==
    IF ~u.ok THEN rawUrl
    ELSE IF \/ ~startsWith(toLowerCase(u.hostname), "editor.")
            \/ ~includes(toLowerCase(u.hostname), "p5js.org")
         THEN rawUrl
    ELSE UrlToString([u EXCEPT !.pathname = ReplaceFirstSegment(@)])

normalizeP5Url(rawUrl) ==
    IF \/ ~includes(toLowerCase(rawUrl), "p5js")
       \/ ~includes(toLowerCase(rawUrl), "editor")
    THEN rawUrl
    ELSE RewriteP5(rawUrl, ParseUrl(rawUrl))

\* pathname.replace(/\/$/, "")
StripTrailingSlash(p) == IF endsWith(p, "/") THEN Slice(p, 1, Len(p) - 1) ELSE p

\* the OpenProcessing branch once new URL(urlStr) has given u
RewriteOpenProcessing(rawUrl, u) ==
    IF ~u.ok THEN rawUrl
    ELSE IF includes(u.pathname, "/sketch/") /\ ~endsWith(u.pathname, "/embed")
         THEN UrlToString([u EXCEPT !.pathname = StripTrailingSlash(@) \o "/embed"])
    ELSE UrlToString(u)

normalizeOpenProcessingUrl(rawUrl) ==
    IF ~includes(toLowerCase(rawUrl), "openprocessing") THEN rawUrl
    ELSE RewriteOpenProcessing(rawUrl, ParseUrl(rawUrl))

normalizeSketchUrl(rawUrl) == normalizeOpenProcessingUrl(normalizeP5Url(rawUrl))

\* ------------------------------------------------------------------------
\* Input validation helpers
\* ------------------------------------------------------------------------
validateFolderId(id) ==
    /\ id # ""
    /\ CharsOf(id) \subseteq (SlugChars \cup {"-"})
    /\ Len(id) > 0
    /\ Len(id) <= 50

validateFolderName(name) ==
    /\ name # ""
    /\ Len(trim(name)) > 0
    /\ Len(name) <= 100
    /\ CharsOf(name) \cap ControlChars = {}

validateSketchField(value, maxLength) ==
    /\ Len(trim(value)) > 0
    /\ Len(trim(value)) <= maxLength
    /\ CharsOf(value) \cap ControlChars = {}

validateUrl(url) ==
    /\ url # ""
    /\ ParseUrl(url).ok
    /\ ParseUrl(url).protocol \in {"http:", "https:"}

\* faulty variant: zero is accepted
validateDimensionFromZero(value) == value >= 0 /\ value <= 10000

\* dimensions are integers in the model, so Number.isInteger always holds
validateDimension(value) == value > 0 /\ value <= 10000

\* /<script\b/i at position i of s
OpenTagAt(s, i) ==
    /\ toLowerCase(Slice(s, i, i + 6)) = "<script"
    /\ (i + 7 > Len(s) \/ Ch(s, i + 7) \notin WordChars)

\* /<\/script>/i at position j of s
CloseTagAt(s, j) == toLowerCase(Slice(s, j, j + 8)) = "</script>"

\* Length of the match of
\*   /<script\b[^<]*(?:(?!<\/script>)<[^<]*)*<\/script>/i
\* anchored at position i of s, 0 when there is none: the body of the
\* pattern consumes everything up to the first closing tag.
ScriptMatchLen(s, i) ==
    LET closes == {j \in (i + 7)..Len(s) : CloseTagAt(s, j)}
        j      == CHOOSE k \in closes : \A m \in closes : k <= m
    IN IF ~OpenTagAt(s, i) \/ closes = {} THEN 0 ELSE j + 9 - i

\* str.replace(/<script...<\/script>/gi, ""): matches are found left to
\* right in the input and never in the result of a replacement
RECURSIVE StripScripts(_)
StripScripts(s) ==
    IF s = "" THEN ""
    ELSE IF ScriptMatchLen(s, 1) > 0
         THEN StripScripts(From(s, ScriptMatchLen(s, 1) + 1))
    ELSE Ch(s, 1) \o StripScripts(Tail(s))

\* the NUL character is outside the alphabet, so .replace(/\0/g, "") has
\* nothing to remove
sanitizeString(str) == StripScripts(str)

\* ------------------------------------------------------------------------
\* Inputs of the requests
\* ------------------------------------------------------------------------
\* ids tried as the :id parameter of PUT and DELETE /api/folders/:id
FolderIdParams == {"w1", "w2", "w3"}
\* ids tried in the body of POST /api/folders
FolderIdInputs == FolderIdParams \cup {"W 1"}
FolderNameInputs == {"Week 1"}
\* a script block split by a nested one, and a name with a control character
NestedScript == "<scr<script></script>ipt></script>"
ControlName == "a\tb"
\* names tried by the folder requests when the folders API runs on its own
PostNameTrials == FolderNameInputs \cup {NestedScript, ControlName}
PutNameTrials == FolderNameInputs \cup {"<script></script>", ControlName, ""}
AuthorInputs == {"Al Bo", "Cy"}
BadAuthor == "a\tb"
TitleInputs == {"Frog", "Frog<script></script>"}
DescriptionInputs == {""}
WeekInputs == {"w1", "w2"}
BaseUrl == "https://editor.p5js.org/u/sketches/a/edit/b"
UrlInputs == {BaseUrl, "ftp://x"}

BaseBody ==
    [author |-> "Al Bo", title |-> "Frog", description |-> "", url |-> BaseUrl,
     width |-> 800, height |-> 600, week |-> "w1"]

\* request bodies of POST /api/sketches: every (author, title, week) with
\* valid other fields, and the base body with one invalid field
PostBodies ==
    {[BaseBody EXCEPT !.author = a, !.title = t, !.description = d, !.week = w] :
        a \in AuthorInputs, t \in TitleInputs, d \in DescriptionInputs,
        w \in WeekInputs}
    \cup {[BaseBody EXCEPT !.url = "ftp://x"], [BaseBody EXCEPT !.width = 0],
          [BaseBody EXCEPT !.week = "W 1"], [BaseBody EXCEPT !.author = BadAuthor]}

\* request bodies of PATCH /api/sketches/:slug: a body is a function from
\* the fields it carries to their values; an absent field is undefined
PatchBodies ==
    {<<>>}
    \cup {[f \in {"title"} |-> t] : t \in TitleInputs}
    \cup {[f \in {"author"} |-> a] : a \in AuthorInputs}
    \cup {[f \in {"week"} |-> w] : w \in WeekInputs \cup {"W 1"}}
    \cup {[f \in {"description"} |-> d] : d \in DescriptionInputs}
    \cup {[f \in {"width"} |-> 0], [f \in {"url"} |-> "ftp://x"]}

\* bodies tried when the sketches API runs on its own: the base body with one
\* field replaced by a value at or beyond the edge of its rule
ScriptTitle == "<script></script>"
ControlDescription == "a\tb"

\* what the admin dialog sends along with the fields: the slug of the
\* sketch it loaded
ExtraFields == [slug |-> "other-slug"]

PostTrials ==
    {BaseBody,
     [BaseBody EXCEPT !.author = "Cy"] @@ ExtraFields,
     [BaseBody EXCEPT !.title = ScriptTitle],
     [BaseBody EXCEPT !.description = ControlDescription],
     [BaseBody EXCEPT !.width = 0],
     [BaseBody EXCEPT !.width = 10001],
     [BaseBody EXCEPT !.width = 10000],
     [BaseBody EXCEPT !.height = 0]}

PatchTrials ==
    {<<>>,
     BaseBody @@ ExtraFields,
     [f \in {"title"} |-> ScriptTitle],
     [f \in {"description"} |-> ControlDescription],
     [f \in {"width"} |-> 0],
     [f \in {"width"} |-> 10000],
     [f \in {"height"} |-> 10001]}

\* The pure helpers are evaluated once over the strings the requests can
\* bring into play; the handlers look the results up.  Tabulate(S, F) is
\* the function x \in S |-> F(x), built value by value.
Tabulate(S, F(_)) ==
    LET RECURSIVE T(_)
        T(R) == IF R = {} THEN <<>>
                ELSE LET x == CHOOSE y \in R : TRUE
                     IN (x :> F(x)) @@ T(R \ {x})
    IN T(S)

\* a title whose slug starts with the name of the super admin page
AdminTitle == "Super Admin"

TextInputs ==
    AuthorInputs \cup TitleInputs \cup DescriptionInputs \cup WeekInputs
        \cup FolderIdInputs \cup FolderNameInputs \cup PostNameTrials
        \cup {ScriptTitle, ControlDescription, AdminTitle}

\* sanitizeString(s) for s in TextInputs
Sanitized == Tabulate(TextInputs, sanitizeString)

TitleValues ==
    LET titles == TitleInputs \cup {ScriptTitle, AdminTitle}
    IN titles \cup {Sanitized[t] : t \in titles}
AuthorValues == AuthorInputs \cup {Sanitized[a] : a \in AuthorInputs}

\* generateSlug(t, a) for the titles and authors of requests and records
Slug == Tabulate(TitleValues \X AuthorValues, LAMBDA p : generateSlug(p[1], p[2]))

\* normalizeSketchUrl(u) for the URLs of requests, of records and of
\* records read back from config.js
Normalized ==
    LET RECURSIVE Reach(_, _)
        \* T and what up to k normalizations make of its members
        Reach(T, k) == IF k = 0 THEN T
                       ELSE Reach(T \cup {normalizeSketchUrl(v) : v \in T}, k - 1)
    IN Tabulate(Reach(UrlInputs, 2), normalizeSketchUrl)

\* validateUrl(u) for the URLs of requests
UrlValid == Tabulate(UrlInputs, validateUrl)

\* the :slug parameters tried: the slugs of the records that can be stored
\* and one slug that no stored record has
SlugInputs ==
    {Slug[Sanitized[t], Sanitized[a]] : t \in TitleInputs, a \in AuthorInputs}
        \cup {Slug["Frog<script></script>", "Al Bo"]}

\* the :slug parameters tried when the sketches API runs on its own
SlugTrials ==
    {Slug[Sanitized[b.title], Sanitized[b.author]] : b \in PostTrials}
        \cup {Slug["Frog<script></script>", "Al Bo"]}

\* (id, name, isDefault) of the PUT /api/folders/:id requests tried
PutFolderInputs ==
    (FolderIdParams \X FolderNameInputs \X BOOLEAN) \cup {<<"w1", "", FALSE>>}

\* ------------------------------------------------------------------------
\* State
\* ------------------------------------------------------------------------
VARIABLES
    sketchesExists,   \* fs.existsSync(DATA_PATH)
    sketches,         \* parsed content of data/sketches.json
    foldersExists,    \* fs.existsSync(FOLDERS_PATH)
    folders,          \* parsed content of data/folders.json
    config,           \* sketchesData and foldersData of src/config.js
    resp,             \* the last request and the response it got
    url,              \* URL under normalization
    passes,           \* number of applications of the helper under study
    unparsable,       \* the store files whose content JSON.parse rejects
    env,              \* process.env: ADMIN_USER and ADMIN_PASS
    failedMap,        \* failedMap of authGuard: ip -> {count, until}
    now,              \* Date.now(), counted in clock ticks
    request,          \* the last request authGuard saw and what it did with it
    viewer,           \* the viewer page: location.hash and what is on screen
    pending,          \* requests received by the server and not yet handled
    answered          \* the responses sent so far, in order

vars == <<sketchesExists, sketches, foldersExists, folders, config, resp, url, passes,
          unparsable, env, failedMap, now, request, viewer, pending, answered>>

storeVars == <<sketchesExists, sketches, foldersExists, folders, config, unparsable>>

guardVars == <<env, failedMap, now, request>>

loopVars == <<pending, answered>>

\* what the handlers of the store never touch
sideVars == <<env, failedMap, now, request, viewer, pending, answered>>

SKETCHES_JSON == "sketches.json"
FOLDERS_JSON == "folders.json"

\* the request and response of one handler run: op and key name the route
\* and its parameter, title and author are the ones of a POST body, status
\* is the HTTP status, slug and sketchCount are taken from the JSON
\* response, item is <<record>> for the record the handler created or
\* updated (which the response carries) or the folder it removed
Response(op, key, title, author, status, slug, sketchCount, item) ==
    [op |-> op, key |-> key, title |-> title, author |-> author,
     status |-> status, slug |-> slug, sketchCount |-> sketchCount, item |-> item]

NoResponse == Response("", "", "", "", 0, "", 0, <<>>)

\* the client addresses requests come from
IpInputs == {"10.0.0.1", "10.0.0.2"}

\* what authGuard saw last: the request (ip, method, path, Authorization
\* header), whether it called next(), the status it sent otherwise, and for
\* that ip the number of requests with bad credentials it has sent in a row
\* to protected paths within the current clock tick
GuardRecord(ip, method, path, header, passed, status, streak) ==
    [ip |-> ip, method |-> method, path |-> path, header |-> header,
     passed |-> passed, status |-> status, streak |-> streak]

NoRequest == GuardRecord("", "", "", "", FALSE, 0, 0)

\* the page: location.hash without its "#"; what is on screen: "none"
\* before a page is opened, "loading" while a render is scheduled, "sketch"
\* or "empty" for the page rendered, "URIError" or "TypeError" for the
\* exception render ended with; the week rendered; the folder handed to
\* renderEmptyWeek (<<>> for undefined); the number of redirects so far
Page(hash, screen, week, folder, redirects) ==
    [hash |-> hash, screen |-> screen, week |-> week, folder |-> folder,
     redirects |-> redirects]

NoPage == Page("", "none", "", <<>>, 0)

DefaultEnv == [ADMIN_USER |-> "admin", ADMIN_PASS |-> "pw"]

\* nothing has happened yet outside the store
SideInit ==
    /\ env = DefaultEnv
    /\ failedMap = <<>>
    /\ now = 0
    /\ request = NoRequest
    /\ viewer = NoPage
    /\ pending = {}
    /\ answered = <<>>

\* ------------------------------------------------------------------------
\* Record store and config projector
\* ------------------------------------------------------------------------
\* readSketches: sketches.json, or the array literal of config.js when the
\* file is missing or does not parse
readSketches ==
    IF sketchesExists /\ SKETCHES_JSON \notin unparsable THEN sketches
    ELSE config.sketches

\* the folders list as every handler reads it
readFolders == IF foldersExists THEN folders ELSE <<>>

\* JSON.parse(fs.readFileSync(FOLDERS_PATH)) throws: no reader of
\* folders.json catches it locally
FoldersThrow == foldersExists /\ FOLDERS_JSON \in unparsable

\* faulty variant: the urls are written as stored
regenerateConfigAsStored(sk, fo) == [sketches |-> sk, folders |-> fo]

\* the data regenerateConfig writes into config.js for the given stores
regenerateConfig(sk, fo) ==
    [sketches |-> [i \in DOMAIN sk |-> [sk[i] EXCEPT !.url = Normalized[@]]],
     folders  |-> fo]

\* array.findIndex: first index satisfying the test, 0 for -1
FindSlug(sk, slug) ==
    LET hits == {i \in DOMAIN sk : Slug[sk[i].title, sk[i].author] = slug}
    IN IF hits = {} THEN 0 ELSE CHOOSE i \in hits : \A j \in hits : i <= j

\* faulty variant: no folder is ever found
FindFolderNone(fo, id) == 0

FindFolder(fo, id) ==
    LET hits == {i \in DOMAIN fo : fo[i].id = id}
    IN IF hits = {} THEN 0 ELSE CHOOSE i \in hits : \A j \in hits : i <= j

\* array.filter
RECURSIVE FilterOutSlug(_, _)
FilterOutSlug(sk, slug) ==
    IF sk = <<>> THEN <<>>
    ELSE (IF Slug[Head(sk).title, Head(sk).author] # slug
          THEN <<Head(sk)>> ELSE <<>>) \o FilterOutSlug(Tail(sk), slug)

\* folders.map((f) => ({ ...f, isDefault: false }))
ClearDefault(fo) == [i \in DOMAIN fo |-> [fo[i] EXCEPT !.isDefault = FALSE]]

\* folders.splice(index, 1)
Splice(fo, index) == SubSeq(fo, 1, index - 1) \o SubSeq(fo, index + 1, Len(fo))

Init ==
    /\ sketchesExists = FALSE
    /\ sketches = <<>>
    /\ foldersExists = FALSE
    /\ folders = <<>>
    /\ config = regenerateConfig(<<>>, <<>>)
    /\ unparsable = {}
    /\ resp = NoResponse
    /\ url = ""
    /\ passes = 0
    /\ SideInit

\* ------------------------------------------------------------------------
\* Folders API
\* ------------------------------------------------------------------------
FolderReply(op, id, status, sketchCount, item) ==
    Response(op, id, "", "", status, "", sketchCount, item)

\* faulty variant: the new default is added without clearing the previous one
PostFolderResultKeepsDefault(cur, id, name, isDefault) ==
    Append(cur, [id |-> Sanitized[id], name |-> Sanitized[name],
                 isDefault |-> isDefault])

\* the folders written by a successful POST /api/folders
PostFolderResult(cur, id, name, isDefault) ==
    Append(IF isDefault THEN ClearDefault(cur) ELSE cur,
           [id |-> Sanitized[id], name |-> Sanitized[name],
            isDefault |-> isDefault])

\* app.post("/api/folders")
PostFolder(id, name, isDefault) ==
    LET cur == readFolders
        status == IF ~validateFolderId(id) THEN 400
                  ELSE IF ~validateFolderName(name) THEN 400
                  ELSE IF FoldersThrow THEN 500
                  ELSE IF FindFolder(cur, id) # 0 THEN 409
                  ELSE 200
        next == PostFolderResult(cur, id, name, isDefault)
    IN /\ resp' = FolderReply("POST /api/folders", id, status, 0,
                              IF status = 200 THEN <<next[Len(next)]>> ELSE <<>>)
       /\ IF status = 200
          THEN /\ folders' = next
               /\ foldersExists' = TRUE
               /\ config' = regenerateConfig(readSketches, next)
               /\ UNCHANGED <<sketchesExists, sketches, unparsable>>
          ELSE UNCHANGED storeVars
       /\ UNCHANGED <<url, passes>>

\* the folders written by a successful PUT /api/folders/:id
PutFolderResult(cur, index, name, isDefault) ==
    [(IF isDefault THEN ClearDefault(cur) ELSE cur) EXCEPT
        ![index] = [@ EXCEPT !.name = name, !.isDefault = isDefault]]

\* app.put("/api/folders/:id")
PutFolder(id, name, isDefault) ==
    LET index == FindFolder(folders, id)
        status == IF name = "" THEN 400
                  ELSE IF ~foldersExists THEN 404
                  ELSE IF FoldersThrow THEN 500
                  ELSE IF index = 0 THEN 404
                  ELSE 200
        next == PutFolderResult(folders, index, name, isDefault)
    IN /\ resp' = FolderReply("PUT /api/folders/:id", id, status, 0,
                              IF status = 200 THEN <<next[index]>> ELSE <<>>)
       /\ IF status = 200
          THEN /\ folders' = next
               /\ config' = regenerateConfig(readSketches, next)
               /\ UNCHANGED <<sketchesExists, sketches, foldersExists, unparsable>>
          ELSE UNCHANGED storeVars
       /\ UNCHANGED <<url, passes>>

\* faulty variant: reports whether any sketch uses the folder instead of how many
SketchCountSome(sk, id) == IF \E i \in DOMAIN sk : sk[i].week = id THEN 1 ELSE 0

\* sketches.filter((s) => s.week === id).length
SketchCount(sk, id) == Cardinality({i \in DOMAIN sk : sk[i].week = id})

\* faulty variant: the default is handed to the last remaining folder
DeleteFolderResultLast(cur, index) ==
    LET rest == Splice(cur, index)
    IN IF (\A i \in DOMAIN rest : ~rest[i].isDefault) /\ Len(rest) > 0
       THEN [rest EXCEPT ![Len(rest)].isDefault = TRUE]
       ELSE rest

\* the folders written by a successful DELETE /api/folders/:id
DeleteFolderResult(cur, index) ==
    LET rest == Splice(cur, index)
    IN IF (\A i \in DOMAIN rest : ~rest[i].isDefault) /\ Len(rest) > 0
       THEN [rest EXCEPT ![1].isDefault = TRUE]
       ELSE rest

\* app.delete("/api/folders/:id")
DeleteFolder(id) ==
    LET index == FindFolder(folders, id)
        sketchCount == SketchCount(readSketches, id)
        status == IF ~foldersExists THEN 404
                  ELSE IF FoldersThrow THEN 500
                  ELSE IF index = 0 THEN 404
                  ELSE IF sketchCount > 0 THEN 400
                  ELSE 200
        next == DeleteFolderResult(folders, index)
    IN /\ resp' = FolderReply("DELETE /api/folders/:id", id, status,
                              IF status = 400 THEN sketchCount ELSE 0,
                              IF status = 200 THEN <<folders[index]>> ELSE <<>>)
       /\ IF status = 200
          THEN /\ folders' = next
               /\ config' = regenerateConfig(readSketches, next)
               /\ UNCHANGED <<sketchesExists, sketches, foldersExists, unparsable>>
          ELSE UNCHANGED storeVars
       /\ UNCHANGED <<url, passes>>

\* ------------------------------------------------------------------------
\* Sketches API
\* ------------------------------------------------------------------------
\* the slug the POST handler derives for its collision check and response
PostSlug(title, author) == Slug[title, author]

\* the record a POST with body b persists
PostItem(b) ==
    [author      |-> Sanitized[b.author],
     title       |-> Sanitized[b.title],
     description |-> Sanitized[b.description],
     url         |-> Normalized[b.url],
     width       |-> b.width,
     height      |-> b.height,
     week        |-> Sanitized[b.week]]

\* the week check of POST and PATCH: skipped when folders.json is missing
WeekExists(week) == foldersExists => FindFolder(folders, week) # 0

PostStatus(b) ==
    IF ~validateSketchField(b.author, 100) THEN 400
    ELSE IF ~validateSketchField(b.title, 200) THEN 400
    ELSE IF ~UrlValid[b.url] THEN 400
    ELSE IF ~validateDimension(b.width) \/ ~validateDimension(b.height) THEN 400
    ELSE IF ~validateFolderId(b.week) THEN 400
    ELSE IF FoldersThrow THEN 500
    ELSE IF ~WeekExists(b.week) THEN 400
    ELSE IF FindSlug(readSketches, PostSlug(b.title, b.author)) # 0 THEN 409
    ELSE 201

\* app.post("/api/sketches")
PostSketch(b) ==
    \E status \in {PostStatus(b)} :
    \E item \in {IF status = 201 THEN PostItem(b) ELSE <<>>} :
    \E next \in {Append(readSketches, item)} :
       /\ status = 201 => Len(readSketches) < MaxSketches
       /\ IF status = 201
          THEN /\ sketches' = next
               /\ sketchesExists' = TRUE
               /\ unparsable' = unparsable \ {SKETCHES_JSON}
               /\ config' = regenerateConfig(next, readFolders)
               /\ resp' = Response("POST /api/sketches", "", b.title, b.author, 201,
                                   PostSlug(b.title, b.author), 0, <<item>>)
               /\ UNCHANGED <<foldersExists, folders>>
          ELSE /\ resp' = Response("POST /api/sketches", "", b.title, b.author,
                                   status, "", 0, <<>>)
               /\ UNCHANGED storeVars
       /\ UNCHANGED <<url, passes>>

\* app.delete("/api/sketches/:slug")
DeleteSketch(slug) ==
    \E next \in {FilterOutSlug(readSketches, slug)} :
       /\ IF Len(next) = Len(readSketches)
          THEN /\ resp' = Response("DELETE /api/sketches/:slug", slug, "", "", 404,
                                   "", 0, <<>>)
               /\ UNCHANGED storeVars
          ELSE \* writeSketches writes sketches.json and then regenerateConfig
               \* throws out of the handler when folders.json does not parse
               /\ resp' = Response("DELETE /api/sketches/:slug", slug, "", "",
                                   IF FoldersThrow THEN 500 ELSE 200, "", 0, <<>>)
               /\ sketches' = next
               /\ sketchesExists' = TRUE
               /\ unparsable' = unparsable \ {SKETCHES_JSON}
               /\ config' = IF FoldersThrow THEN config
                             ELSE regenerateConfig(next, readFolders)
               /\ UNCHANGED <<foldersExists, folders>>
       /\ UNCHANGED <<url, passes>>

\* app.get("/api/sketches"): every record of the store with its derived slug
GetSketches ==
    [i \in DOMAIN readSketches |->
        [record |-> readSketches[i],
         slug   |-> Slug[readSketches[i].title, readSketches[i].author]]]

Has(body, field) == field \in DOMAIN body

\* faulty variant: a description the body does not carry is stored empty, as
\* POST does
PatchItemBlankDescription(current, body) ==
    [author      |-> IF Has(body, "author") THEN Sanitized[body.author]
                     ELSE current.author,
     title       |-> IF Has(body, "title") THEN Sanitized[body.title]
                     ELSE current.title,
     description |-> IF Has(body, "description") THEN Sanitized[body.description]
                     ELSE "",
     url         |-> IF Has(body, "url") THEN Normalized[body.url]
                     ELSE current.url,
     width       |-> IF Has(body, "width") THEN body.width ELSE current.width,
     height      |-> IF Has(body, "height") THEN body.height ELSE current.height,
     week        |-> IF Has(body, "week") THEN Sanitized[body.week]
                     ELSE current.week]

\* the record a PATCH with the given body makes of the current record
PatchItem(current, body) ==
    [author      |-> IF Has(body, "author") THEN Sanitized[body.author]
                     ELSE current.author,
     title       |-> IF Has(body, "title") THEN Sanitized[body.title]
                     ELSE current.title,
     description |-> IF Has(body, "description") THEN Sanitized[body.description]
                     ELSE current.description,
     url         |-> IF Has(body, "url") THEN Normalized[body.url]
                     ELSE current.url,
     width       |-> IF Has(body, "width") THEN body.width ELSE current.width,
     height      |-> IF Has(body, "height") THEN body.height ELSE current.height,
     week        |-> IF Has(body, "week") THEN Sanitized[body.week]
                     ELSE current.week]

\* the rename collision test of PATCH
PatchConflict(sk, idx, originalSlug, newSlug) ==
    /\ newSlug # originalSlug
    /\ \E i \in DOMAIN sk :
          i # idx /\ Slug[sk[i].title, sk[i].author] = newSlug

PatchStatus(sk, idx, originalSlug, body) ==
    IF idx = 0 THEN 404
    ELSE IF Has(body, "author") /\ ~validateSketchField(body.author, 100) THEN 400
    ELSE IF Has(body, "title") /\ ~validateSketchField(body.title, 200) THEN 400
    ELSE IF Has(body, "url") /\ ~UrlValid[body.url] THEN 400
    ELSE IF Has(body, "width") /\ ~validateDimension(body.width) THEN 400
    ELSE IF Has(body, "height") /\ ~validateDimension(body.height) THEN 400
    ELSE IF Has(body, "week") /\ ~validateFolderId(body.week) THEN 400
    ELSE IF Has(body, "week") /\ body.week # "" /\ FoldersThrow THEN 500
    ELSE IF Has(body, "week") /\ body.week # "" /\ ~WeekExists(body.week) THEN 400
    ELSE LET updated == PatchItem(sk[idx], body)
         IN IF PatchConflict(sk, idx, originalSlug,
                             Slug[updated.title, updated.author])
            THEN 409 ELSE 200

\* app.patch("/api/sketches/:slug")
PatchSketch(originalSlug, body) ==
    \E sk \in {readSketches} :
    \E idx \in {FindSlug(sk, originalSlug)} :
    \E status \in {PatchStatus(sk, idx, originalSlug, body)} :
    \E updated \in {IF status = 200 THEN PatchItem(sk[idx], body) ELSE <<>>} :
    \E next \in {IF status = 200 THEN [sk EXCEPT ![idx] = updated] ELSE <<>>} :
       /\ IF FoldersThrow /\ status = 200
          THEN \* writeSketches has written sketches.json when
               \* regenerateConfig throws into the handler's catch
               /\ sketches' = next
               /\ sketchesExists' = TRUE
               /\ unparsable' = unparsable \ {SKETCHES_JSON}
               /\ resp' = Response("PATCH /api/sketches/:slug", originalSlug, "", "", 500,
                                   "", 0, <<>>)
               /\ UNCHANGED <<foldersExists, folders, config>>
          ELSE IF status = 200
          THEN /\ sketches' = next
               /\ sketchesExists' = TRUE
               /\ unparsable' = unparsable \ {SKETCHES_JSON}
               /\ config' = regenerateConfig(next, readFolders)
               /\ resp' = Response("PATCH /api/sketches/:slug", originalSlug, "", "", 200,
                                   Slug[updated.title, updated.author], 0,
                                   <<updated>>)
               /\ UNCHANGED <<foldersExists, folders>>
          ELSE /\ resp' = Response("PATCH /api/sketches/:slug", originalSlug, "", "",
                                   status, "", 0, <<>>)
               /\ UNCHANGED storeVars
       /\ UNCHANGED <<url, passes>>

\* ------------------------------------------------------------------------
\* The server: any request at any time, each handled to completion
\* ------------------------------------------------------------------------
Next ==
    \/ \E id \in FolderIdInputs, name \in FolderNameInputs, isDefault \in BOOLEAN :
          PostFolder(id, name, isDefault) /\ UNCHANGED sideVars
    \/ \E p \in PutFolderInputs : PutFolder(p[1], p[2], p[3]) /\ UNCHANGED sideVars
    \/ \E id \in FolderIdParams : DeleteFolder(id) /\ UNCHANGED sideVars
    \/ \E b \in PostBodies : PostSketch(b) /\ UNCHANGED sideVars
    \/ \E slug \in SlugInputs : DeleteSketch(slug) /\ UNCHANGED sideVars
    \/ \E slug \in SlugInputs, body \in PatchBodies :
          PatchSketch(slug, body) /\ UNCHANGED sideVars

Spec == Init /\ [][Next]_vars

\* ------------------------------------------------------------------------
\* The folders API on its own, with more names tried
\* ------------------------------------------------------------------------
FolderNext ==
    \/ \E id \in FolderIdInputs, name \in PostNameTrials, isDefault \in BOOLEAN :
          PostFolder(id, name, isDefault) /\ UNCHANGED sideVars
    \/ \E id \in FolderIdParams, name \in PutNameTrials, isDefault \in BOOLEAN :
          PutFolder(id, name, isDefault) /\ UNCHANGED sideVars
    \/ \E id \in FolderIdParams : DeleteFolder(id) /\ UNCHANGED sideVars

SpecFolders == Init /\ [][FolderNext]_vars

\* ------------------------------------------------------------------------
\* The sketches API on its own (no folders file), with more field values
\* tried
\* ------------------------------------------------------------------------
SketchNext ==
    \/ \E b \in PostTrials : PostSketch(b) /\ UNCHANGED sideVars
    \/ \E slug \in SlugTrials : DeleteSketch(slug) /\ UNCHANGED sideVars
    \/ \E slug \in SlugTrials, body \in PatchTrials :
          PatchSketch(slug, body) /\ UNCHANGED sideVars

SpecSketches == Init /\ [][SketchNext]_vars

\* ------------------------------------------------------------------------
\* URL normalizer on its own: normalizeSketchUrl applied repeatedly to one
\* URL, as POST/PATCH and then every regenerateConfig do
\* ------------------------------------------------------------------------
HostInputs == {"editor.p5js.org", "openprocessing.org", "OpenProcessing.org", "p5js.org"}
SegmentInputs == {"sketches", "edit", "sketch", "embed", "editor", "u"}

RECURSIVE PathsOfLength(_)
PathsOfLength(n) ==
    IF n = 0 THEN {""}
    ELSE {p \o "/" \o seg : p \in PathsOfLength(n - 1), seg \in SegmentInputs}

PathInputs ==
    LET bare == UNION {PathsOfLength(n) : n \in 0..MaxSegments}
    IN bare \cup {p \o "/" : p \in bare}

NormalizerInputs ==
    {"https://" \o h \o p : h \in HostInputs, p \in PathInputs}
        \cup {"editor p5js", "openprocessing"}

NormInit ==
    /\ url \in NormalizerInputs
    /\ passes = 0
    /\ sketchesExists = FALSE
    /\ sketches = <<>>
    /\ foldersExists = FALSE
    /\ folders = <<>>
    /\ config = regenerateConfig(<<>>, <<>>)
    /\ unparsable = {}
    /\ resp = NoResponse
    /\ SideInit

Normalize ==
    /\ passes < MaxPasses
    /\ url' = normalizeSketchUrl(url)
    /\ passes' = passes + 1
    /\ UNCHANGED <<storeVars, resp, sideVars>>

NormNext == Normalize

SpecNormalize == NormInit /\ [][NormNext]_vars

\* ------------------------------------------------------------------------
\* Slug generator on its own: generateSlug applied to one (title, author);
\* resp holds the arguments and then the result
\* ------------------------------------------------------------------------
NameAlphabet == {"a", "Z", "é", " ", "-", "."}

RECURSIVE StringsOfLength(_)
StringsOfLength(n) ==
    IF n = 0 THEN {""}
    ELSE {w \o c : w \in StringsOfLength(n - 1), c \in NameAlphabet}

NameInputs == UNION {StringsOfLength(n) : n \in 0..MaxNameLen}

GENERATE_SLUG == "generateSlug"

SlugInit ==
    /\ resp \in {Response(GENERATE_SLUG, "", t, a, 0, "", 0, <<>>) :
                    t \in NameInputs, a \in NameInputs}
    /\ passes = 0
    /\ url = ""
    /\ sketchesExists = FALSE
    /\ sketches = <<>>
    /\ foldersExists = FALSE
    /\ folders = <<>>
    /\ config = regenerateConfig(<<>>, <<>>)
    /\ unparsable = {}
    /\ SideInit

ApplyGenerateSlug ==
    /\ passes = 0
    /\ passes' = 1
    /\ resp' = [resp EXCEPT !.slug = generateSlug(resp.title, resp.author)]
    /\ UNCHANGED <<storeVars, url, sideVars>>

SlugNext == ApplyGenerateSlug

SpecSlug == SlugInit /\ [][SlugNext]_vars

\* ------------------------------------------------------------------------
\* The server with store files that stop parsing: between two requests a
\* store file that exists can be left with content that is not JSON
\* ------------------------------------------------------------------------
GET_FOLDERS == "GET /api/folders"
GET_SKETCHES == "GET /api/sketches"

\* app.get("/api/folders"): item carries the folders sent
GetFolders ==
    /\ resp' = IF ~foldersExists THEN FolderReply(GET_FOLDERS, "", 200, 0, <<>>)
               ELSE IF FoldersThrow THEN FolderReply(GET_FOLDERS, "", 500, 0, <<>>)
               ELSE FolderReply(GET_FOLDERS, "", 200, 0, folders)
    /\ UNCHANGED <<storeVars, url, passes>>

\* app.get("/api/sketches"): item carries the records sent
ListSketches ==
    /\ resp' = Response(GET_SKETCHES, "", "", "", 200, "", 0,
                        [i \in DOMAIN GetSketches |-> GetSketches[i].record])
    /\ UNCHANGED <<storeVars, url, passes>>

\* the content of an existing store file is replaced by text JSON.parse rejects
Corrupt(file) ==
    /\ file \notin unparsable
    /\ file = SKETCHES_JSON => sketchesExists
    /\ file = FOLDERS_JSON => foldersExists
    /\ unparsable' = unparsable \cup {file}
    /\ sketches' = IF file = SKETCHES_JSON THEN <<>> ELSE sketches
    /\ folders' = IF file = FOLDERS_JSON THEN <<>> ELSE folders
    /\ UNCHANGED <<sketchesExists, foldersExists, config, resp, url, passes>>

ParseBodies == {BaseBody, [BaseBody EXCEPT !.author = "Cy"]}
ParsePatches == {<<>>, [f \in {"week"} |-> "w1"]}
ParseSlugs == {Slug[b.title, b.author] : b \in ParseBodies}

ParseNext ==
    \/ \E file \in {SKETCHES_JSON, FOLDERS_JSON} : Corrupt(file) /\ UNCHANGED sideVars
    \/ GetFolders /\ UNCHANGED sideVars
    \/ ListSketches /\ UNCHANGED sideVars
    \/ \E isDefault \in BOOLEAN :
          PostFolder("w1", "Week 1", isDefault) /\ UNCHANGED sideVars
    \/ \E isDefault \in BOOLEAN :
          PutFolder("w1", "Week 1", isDefault) /\ UNCHANGED sideVars
    \/ DeleteFolder("w1") /\ UNCHANGED sideVars
    \/ \E b \in ParseBodies : PostSketch(b) /\ UNCHANGED sideVars
    \/ \E slug \in ParseSlugs : DeleteSketch(slug) /\ UNCHANGED sideVars
    \/ \E slug \in ParseSlugs, body \in ParsePatches :
          PatchSketch(slug, body) /\ UNCHANGED sideVars

SpecParse == Init /\ [][ParseNext]_vars

\* ------------------------------------------------------------------------
\* Basic auth guard in front of the routes.  The clock counts ticks of half
\* a lock period; base64 text is kept symbolic as b64[...]
\* ------------------------------------------------------------------------
MAX_FAILS == 8
LOCK_MS == 2

AUTH_ENABLED == env.ADMIN_USER # "" /\ env.ADMIN_PASS # ""

\* the configurations tried: a plain password and one with a colon in it
EnvInputs == {DefaultEnv, [ADMIN_USER |-> "admin", ADMIN_PASS |-> "p:w"]}

shouldProtect(pathname) ==
    IF pathname \in {"/api/sketches", "/api/folders"} THEN FALSE
    ELSE LET isRegularAdmin ==
                 \/ pathname = "/admin"
                 \/ pathname = "/admin.html"
                 \/ startsWith(pathname, "/admin-dist") /\ ~includes(pathname, "super-admin")
         IN isRegularAdmin \/ startsWith(pathname, "/api/") \/ pathname = "/api"

isSuperAdminEndpoint(pathname) ==
    \/ pathname = "/super-admin"
    \/ pathname = "/super-admin.html"
    \/ includes(pathname, "/super-admin")
    \/ startsWith(pathname, "/admin-dist/assets/")
    \/ pathname = "/api/folders"
    \/ startsWith(pathname, "/api/folders/")

\* btoa(text) as a client sends it
Base64(text) == "b64[" \o text \o "]"

\* Buffer.from(b, "base64").toString("utf8")
FromBase64(b) ==
    IF startsWith(b, "b64[") /\ endsWith(b, "]") THEN Slice(b, 5, Len(b) - 1) ELSE ""

\* header.match(/^Basic\s+(.*)$/i): <<group 1>>, or <<>> for null
BasicMatch(header) ==
    IF toLowerCase(Slice(header, 1, 5)) = "basic" /\ Ch(header, 6) \in WhiteSpace
    THEN <<trimStart(From(header, 6))>>
    ELSE <<>>

\* decoded.split(":")
RECURSIVE split(_, _)
split(str, sep) ==
    IF IndexOf(str, sep) = 0 THEN <<str>>
    ELSE <<Slice(str, 1, IndexOf(str, sep) - 1)>>
            \o split(From(str, IndexOf(str, sep) + Len(sep)), sep)

\* const [user, pass] = parts: pass is <<>> for undefined
Destructure(parts) ==
    [user |-> parts[1], pass |-> IF Len(parts) >= 2 THEN <<parts[2]>> ELSE <<>>]

\* the credentials authGuard reads out of a header that matches
CredentialsOf(header) == Destructure(split(FromBase64(BasicMatch(header)[1]), ":"))

\* the Authorization header a client builds from a user and a password
BasicHeader(user, pass) == "Basic " \o Base64(user \o ":" \o pass)

HeaderInputs == {""} \cup {BasicHeader(e.ADMIN_USER, e.ADMIN_PASS) : e \in EnvInputs}

\* the requests tried: the sketch routes, with a slug that starts with the
\* name of the super admin page and one that does not, and the admin page
GuardBodies == {BaseBody, [BaseBody EXCEPT !.title = AdminTitle]}
GuardSlugs == {Slug[b.title, b.author] : b \in GuardBodies}
SKETCHES_PATH == "/api/sketches"

GuardRoutes ==
    {<<"POST", SKETCHES_PATH>>, <<"GET", "/admin">>}
        \cup {<<m, SKETCHES_PATH \o "/" \o slug>> : m \in {"DELETE", "PATCH"}, slug \in GuardSlugs}

GuardPaths == {route[2] : route \in GuardRoutes}

\* the helpers evaluated once over the headers and paths tried
Matched == Tabulate(HeaderInputs, LAMBDA h : BasicMatch(h) # <<>>)
Credentials ==
    Tabulate({h \in HeaderInputs : Matched[h]}, CredentialsOf)
Protected == Tabulate(GuardPaths, shouldProtect)
SuperAdminPath == Tabulate(GuardPaths, isSuperAdminEndpoint)
SlugParam == Tabulate(GuardPaths, LAMBDA path : From(path, Len(SKETCHES_PATH) + 2))
Header == Tabulate(EnvInputs, LAMBDA e : BasicHeader(e.ADMIN_USER, e.ADMIN_PASS))

\* user === ADMIN_USER && pass === ADMIN_PASS for the header's credentials
CredentialsAccepted(header) ==
    /\ Matched[header]
    /\ Credentials[header] = [user |-> env.ADMIN_USER, pass |-> <<env.ADMIN_PASS>>]

\* what authGuard does with a request: next() or a status, and the failure map
Verdict(passed, status, map) == [passed |-> passed, status |-> status, failedMap |-> map]

\* failedMap.delete(ip)
MapDelete(map, ip) == [k \in DOMAIN map \ {ip} |-> map[k]]

\* the record written for one more bad attempt
NextRec(rec) ==
    [count |-> rec.count + 1,
     until |-> IF rec.count + 1 >= MAX_FAILS THEN now + LOCK_MS ELSE rec.until]

\* rec && rec.until > now ? rec : { count: 0, until: 0 }
RecToCount(ip) ==
    IF ip \in DOMAIN failedMap /\ failedMap[ip].until > now THEN failedMap[ip]
    ELSE [count |-> 0, until |-> 0]

\* the part of authGuard that looks at credentials
CheckCredentials(ip, header, nextRec) ==
    IF CredentialsAccepted(header) THEN Verdict(TRUE, 0, MapDelete(failedMap, ip))
    ELSE IF ip \in DOMAIN failedMap /\ failedMap[ip].until # 0 /\ failedMap[ip].until > now
    THEN Verdict(FALSE, 429, failedMap)
    ELSE IF ~Matched[header] THEN Verdict(FALSE, 401, failedMap)
    ELSE Verdict(FALSE, IF nextRec.until # 0 /\ nextRec.until > now THEN 429 ELSE 401,
                 (ip :> nextRec) @@ failedMap)

\* the early exits of authGuard
PassedUnchecked(method, path) ==
    \/ SuperAdminPath[path]
    \/ path \in {"/api/sketches", "/api/folders"} /\ method = "GET"
    \/ ~AUTH_ENABLED
    \/ ~Protected[path]

authGuard(ip, method, path, header) ==
    IF PassedUnchecked(method, path) THEN Verdict(TRUE, 0, failedMap)
    ELSE CheckCredentials(ip, header, NextRec(RecToCount(ip)))

\* the route a request that passed the guard ends in
Dispatch(method, path) ==
    IF method = "POST" THEN \E b \in GuardBodies : PostSketch(b)
    ELSE IF method = "DELETE" THEN DeleteSketch(SlugParam[path])
    ELSE IF method = "PATCH" THEN PatchSketch(SlugParam[path], <<>>)
    ELSE /\ resp' = Response("GET /admin", "", "", "", 200, "", 0, <<>>)
         /\ UNCHANGED <<storeVars, url, passes>>

\* a request with bad credentials that authGuard checks
BadAttempt(method, path, header) ==
    /\ ~PassedUnchecked(method, path)
    /\ Matched[header]
    /\ header # Header[env]

\* one request through app.use(authGuard) and, when passed on, its route
Request(ip, method, path, header) ==
    /\ \E verdict \in {authGuard(ip, method, path, header)} :
          /\ failedMap' = verdict.failedMap
          /\ request' = GuardRecord(ip, method, path, header, verdict.passed,
                                    verdict.status,
                                    IF ~BadAttempt(method, path, header) THEN 0
                                    ELSE IF ip # request.ip THEN 1
                                    ELSE IF request.streak < MAX_FAILS
                                    THEN request.streak + 1
                                    ELSE MAX_FAILS)
          /\ IF verdict.passed
             THEN Dispatch(method, path)
             ELSE /\ resp' = Response("authGuard", "", "", "", verdict.status, "", 0, <<>>)
                  /\ UNCHANGED <<storeVars, url, passes>>
    /\ UNCHANGED <<env, now>>

\* time passes
Tick ==
    /\ now < MaxClock
    /\ now' = now + 1
    /\ request' = [request EXCEPT !.streak = 0]
    /\ UNCHANGED <<storeVars, resp, url, passes, env, failedMap>>

\* the server is started with one of the configurations
GuardInit ==
    /\ sketchesExists = FALSE
    /\ sketches = <<>>
    /\ foldersExists = FALSE
    /\ folders = <<>>
    /\ config = regenerateConfig(<<>>, <<>>)
    /\ unparsable = {}
    /\ resp = NoResponse
    /\ url = ""
    /\ passes = 0
    /\ env \in EnvInputs
    /\ failedMap = <<>>
    /\ now = 0
    /\ request = NoRequest
    /\ viewer = NoPage
    /\ pending = {}
    /\ answered = <<>>

GuardNext ==
    \/ \E ip \in IpInputs, route \in GuardRoutes, header \in HeaderInputs :
          Request(ip, route[1], route[2], header) /\ UNCHANGED <<viewer, loopVars>>
    \/ Tick /\ UNCHANGED <<viewer, loopVars>>

SpecGuard == GuardInit /\ [][GuardNext]_vars

\* ------------------------------------------------------------------------
\* The viewer (src/main.js): a page is opened with some location hash on
\* the config.js the server has generated; render either puts a page on
\* screen or assigns location.hash, and the hashchange listener reloads
\* ------------------------------------------------------------------------
\* the escapes of the characters that occur in the hashes tried
PercentCodes == ("%31" :> "1") @@ ("%2F" :> "/") @@ ("%25" :> "%") @@ ("%20" :> " ")

\* c followed by the decoded rest, <<>> when the rest threw
PrependChar(c, rest) == IF rest = <<>> THEN <<>> ELSE <<c \o rest[1]>>

\* decodeURIComponent(str): <<result>>, or <<>> for URIError
RECURSIVE decodeURIComponent(_)
decodeURIComponent(str) ==
    IF str = "" THEN <<"">>
    ELSE IF Ch(str, 1) # "%"
    THEN PrependChar(Ch(str, 1), decodeURIComponent(From(str, 2)))
    ELSE IF Slice(str, 1, 3) \in DOMAIN PercentCodes
    THEN PrependChar(PercentCodes[Slice(str, 1, 3)], decodeURIComponent(From(str, 4)))
    ELSE <<>>

\* the characters encodeURIComponent leaves alone
Unreserved ==
    CharsOf("abcdefghijklmnopqrstuvwxyzABCDEFGHIJKLMNOPQRSTUVWXYZ0123456789-_.!~*'()")

RECURSIVE encodeURIComponent(_)
encodeURIComponent(str) ==
    IF str = "" THEN ""
    ELSE (IF Ch(str, 1) \in Unreserved THEN Ch(str, 1)
          ELSE CHOOSE code \in DOMAIN PercentCodes : PercentCodes[code] = Ch(str, 1))
            \o encodeURIComponent(From(str, 2))

\* the requests that build the config before the page is opened
ViewerFolderIds == {"w1", "w2"}
ViewerBodies == {BaseBody, [BaseBody EXCEPT !.author = "Cy", !.week = "w2"]}
ViewerSlugs == {Slug[Sanitized[b.title], Sanitized[b.author]] : b \in ViewerBodies}

\* the hashes a page is opened with: none, an existing week, a missing
\* week, a sketch, a missing sketch, an escaped week, a malformed escape
HashInputs ==
    {"", "w1", "w9", "w1/" \o Slug["Frog", "Al Bo"], "w1/none", "w%31", "%"}

\* the hashes render can assign
RedirectHashes ==
    ViewerFolderIds
        \cup {w \o "/" \o encodeURIComponent(slug) : w \in ViewerFolderIds, slug \in ViewerSlugs}

\* rawHash.split("/"), decodeURIComponent and encodeURIComponent evaluated
\* once over the hashes that can occur
HashParts == Tabulate(HashInputs \cup RedirectHashes, LAMBDA h : split(h, "/"))
Decoded ==
    Tabulate(UNION {{HashParts[h][i] : i \in DOMAIN HashParts[h]} : h \in DOMAIN HashParts},
             decodeURIComponent)
Encoded == Tabulate(ViewerSlugs, encodeURIComponent)

\* Config.folders.find((f) => f.isDefault) || Config.folders[0]: <<folder>>,
\* or <<>> for undefined
DefaultFolder(fo) ==
    IF \E i \in DOMAIN fo : fo[i].isDefault
    THEN <<fo[CHOOSE i \in DOMAIN fo :
                /\ fo[i].isDefault
                /\ \A j \in DOMAIN fo : fo[j].isDefault => i <= j]>>
    ELSE IF fo # <<>> THEN <<fo[1]>>
    ELSE <<>>

\* Config.folders.find((f) => f.id === weekId): <<folder>>, or <<>>
CurrentFolder(fo, weekId) ==
    IF FindFolder(fo, weekId) = 0 THEN <<>> ELSE <<fo[FindFolder(fo, weekId)]>>

\* Config.sketches.filter((s) => s.week === weekId), as slugs
WeekSlugs(weekId) ==
    LET sk == SelectSeq(config.sketches, LAMBDA r : r.week = weekId)
    IN [i \in DOMAIN sk |-> Slug[sk[i].title, sk[i].author]]

\* what one run of render ends with: "redirect" (location.hash assigned),
\* "sketch", "empty", or the exception thrown
Outcome(kind, hash, week, folder) ==
    [kind |-> kind, hash |-> hash, week |-> week, folder |-> folder]

\* renderEmptyWeek(weekId, currentFolder) reads currentFolder.name
renderEmptyWeek(weekId, currentFolder) ==
    IF currentFolder = <<>> THEN Outcome("TypeError", "", weekId, currentFolder)
    ELSE Outcome("empty", "", weekId, currentFolder)

\* render from the point where weekId and sketchSlug are known
RenderWeek(weekId, sketchSlug, currentFolder, defaultFolder, weekSlugs) ==
    IF weekId = "" /\ defaultFolder # <<>>
    THEN Outcome("redirect", defaultFolder[1].id, "", <<>>)
    ELSE IF currentFolder = <<>> /\ defaultFolder # <<>>
    THEN Outcome("redirect", defaultFolder[1].id, "", <<>>)
    ELSE IF sketchSlug = "" /\ weekSlugs # <<>>
    THEN Outcome("redirect", weekId \o "/" \o Encoded[weekSlugs[1]], "", <<>>)
    ELSE IF weekSlugs = <<>> THEN renderEmptyWeek(weekId, currentFolder)
    ELSE IF \A i \in DOMAIN weekSlugs : weekSlugs[i] # sketchSlug
    THEN Outcome("redirect", weekId \o "/" \o Encoded[weekSlugs[1]], "", <<>>)
    ELSE Outcome("sketch", "", weekId, currentFolder)

\* the two decodeURIComponent calls at the head of render
DecodeParts(parts) ==
    [week |-> IF parts[1] # "" THEN Decoded[parts[1]] ELSE <<"">>,
     slug |-> IF Len(parts) >= 2 /\ parts[2] # "" THEN Decoded[parts[2]] ELSE <<"">>]

RenderDecoded(d) ==
    IF d.week = <<>> \/ d.slug = <<>> THEN Outcome("URIError", "", "", <<>>)
    ELSE RenderWeek(d.week[1], d.slug[1], CurrentFolder(config.folders, d.week[1]),
                    DefaultFolder(config.folders), WeekSlugs(d.week[1]))

\* App.render for the given location.hash (without "#")
render(hash) == RenderDecoded(DecodeParts(HashParts[hash]))

\* a browser opens the viewer: connectedCallback schedules render
Open(hash) ==
    /\ viewer.screen = "none"
    /\ viewer' = Page(hash, "loading", "", <<>>, 0)
    /\ UNCHANGED <<storeVars, resp, url, passes>>

\* the scheduled render runs; an assignment that changes location.hash fires
\* hashchange, whose listener reloads the page, which schedules render again;
\* one that does not change it leaves the page as it is
Render ==
    /\ viewer.screen = "loading"
    /\ viewer.redirects < MaxRedirects
    /\ \E out \in {render(viewer.hash)} :
          viewer' = IF out.kind = "redirect"
                    THEN Page(out.hash,
                              IF out.hash = viewer.hash THEN "blank" ELSE "loading",
                              "", <<>>, viewer.redirects + 1)
                    ELSE Page(viewer.hash, out.kind, out.week, out.folder,
                              viewer.redirects)
    /\ UNCHANGED <<storeVars, resp, url, passes>>

\* the server builds the config while no page is open
ViewerNext ==
    \/ /\ viewer.screen = "none"
       /\ \E id \in ViewerFolderIds, isDefault \in BOOLEAN :
             PostFolder(id, "Week 1", isDefault)
       /\ UNCHANGED sideVars
    \/ /\ viewer.screen = "none"
       /\ \E id \in ViewerFolderIds : DeleteFolder(id)
       /\ UNCHANGED sideVars
    \/ /\ viewer.screen = "none"
       /\ \E b \in ViewerBodies : PostSketch(b)
       /\ UNCHANGED sideVars
    \/ \E hash \in HashInputs : Open(hash) /\ UNCHANGED <<guardVars, loopVars>>
    \/ Render /\ UNCHANGED <<guardVars, loopVars>>

SpecViewer == Init /\ [][ViewerNext]_vars

\* the browser runs a scheduled render
SpecViewerFair == SpecViewer /\ WF_vars(Render /\ UNCHANGED <<guardVars, loopVars>>)

\* ------------------------------------------------------------------------
\* Concurrent clients: requests are received at any time and wait in
\* pending; the event loop takes one of them and runs its handler, which
\* only makes synchronous calls (readFileSync, writeFileSync), to its end
\* before it takes the next
\* ------------------------------------------------------------------------
LoopBodies == {BaseBody, [BaseBody EXCEPT !.title = "Frog<script></script>"]}
LoopPatches == {[f \in {"width"} |-> 10000], [f \in {"height"} |-> 10000]}

\* a request in flight: POST /api/sketches with a body, or
\* PATCH /api/sketches/:slug with a body
Incoming(id, method, slug, body) ==
    [id |-> id, method |-> method, slug |-> slug, body |-> body]

LoopRequests(id) ==
    {Incoming(id, "POST", PostSlug(b.title, b.author), b) : b \in LoopBodies}
        \cup {Incoming(id, "PATCH", Slug["Frog", "Al Bo"], body) : body \in LoopPatches}

\* a client sends a request while others may still be waiting
Issue(r) ==
    /\ Len(answered) + Cardinality(pending) < MaxRequests
    /\ r.id = Len(answered) + Cardinality(pending) + 1
    /\ pending' = pending \cup {r}
    /\ UNCHANGED <<storeVars, resp, url, passes, answered>>

\* the event loop runs the handler of one waiting request
Handle(r) ==
    /\ r \in pending
    /\ IF r.method = "POST" THEN PostSketch(r.body) ELSE PatchSketch(r.slug, r.body)
    /\ pending' = pending \ {r}
    /\ answered' = Append(answered, [request |-> r, status |-> resp'.status])

LoopNext ==
    \/ \E r \in LoopRequests(Len(answered) + Cardinality(pending) + 1) :
          Issue(r) /\ UNCHANGED <<guardVars, viewer>>
    \/ \E r \in pending : Handle(r) /\ UNCHANGED <<guardVars, viewer>>

SpecLoop == Init /\ [][LoopNext]_vars

\* ------------------------------------------------------------------------
\* Properties
\* ------------------------------------------------------------------------
POST_SKETCH == "POST /api/sketches"
PATCH_SKETCH == "PATCH /api/sketches/:slug"
DELETE_SKETCH == "DELETE /api/sketches/:slug"
POST_FOLDER == "POST /api/folders"
PUT_FOLDER == "PUT /api/folders/:id"
DELETE_FOLDER == "DELETE /api/folders/:id"

\* the slug a persisted record derives
SlugOfRecord(r) == Slug[r.title, r.author]

\* the indexes of the folders marked default
DefaultFolders(fo) == {i \in DOMAIN fo : fo[i].isDefault}

\* C1: after any sequence of POST and PATCH sketch requests, no two records
\* of the sketch store derive the same slug from their persisted title and
\* author.
C1_UniqueSlugs ==
    \A i, j \in DOMAIN sketches :
        i # j => SlugOfRecord(sketches[i]) # SlugOfRecord(sketches[j])

\* C2: a POST that repeats the (title, author) of the POST that has just
\* succeeded, and is not rejected as invalid, is answered 409 and leaves the
\* sketch store and the config artifact unchanged.
C2_DuplicatePostRejected ==
    [][(/\ resp.op = POST_SKETCH /\ resp.status = 201
        /\ resp'.op = POST_SKETCH
        /\ resp'.title = resp.title /\ resp'.author = resp.author
        /\ resp'.status # 400)
       => (resp'.status = 409 /\ UNCHANGED storeVars)]_vars

\* the record PATCH slug/body would write derives the slug of another record
RenameCollides(slug, body) ==
    LET sk == readSketches
        idx == FindSlug(sk, slug)
    IN /\ idx # 0
       /\ \E i \in DOMAIN sk :
             i # idx /\ SlugOfRecord(sk[i]) = SlugOfRecord(PatchItem(sk[idx], body))

\* C3: a PATCH of an existing record with valid fields whose resulting
\* (title, author) derives the slug of a different record is answered 409
\* and leaves the sketch store and the config artifact unchanged.
C3_RenameCollisionRejected ==
    [][\A body \in PatchBodies :
          (/\ resp'.op = PATCH_SKETCH
           /\ PatchSketch(resp'.key, body)
           /\ resp'.status \notin {400, 404}
           /\ RenameCollides(resp'.key, body))
          => (resp'.status = 409 /\ UNCHANGED storeVars)]_vars

\* C4: after a PATCH has changed a record's slug from s to s', the next
\* PATCH or DELETE with s is answered 404 and changes nothing, and the next
\* PATCH or DELETE with s' finds the patched record.
C4_RenamedRecordAddress ==
    [][(/\ resp.op = PATCH_SKETCH /\ resp.status = 200 /\ resp.slug # resp.key
        /\ resp'.op \in {PATCH_SKETCH, DELETE_SKETCH})
       => /\ resp'.key = resp.key => (resp'.status = 404 /\ UNCHANGED storeVars)
          /\ resp'.key = resp.slug =>
                /\ resp'.status # 404
                /\ sketches[FindSlug(sketches, resp.slug)] = resp.item[1]]_vars

\* C5: every persisted sketch's week is the id of a folder of the folder
\* store.
C5_WeekReferencesFolder ==
    \A i \in DOMAIN sketches :
        \E k \in DOMAIN readFolders : readFolders[k].id = sketches[i].week

\* the number of persisted sketches whose week is id
References(id) == Cardinality({i \in DOMAIN readSketches : readSketches[i].week = id})

\* C6: DELETE /api/folders/:id of an existing folder that n >= 1 sketches
\* reference is answered 400 with sketchCount = n and leaves the folder
\* store, the sketch store and the config artifact unchanged.
C6_ReferencedFolderKept ==
    [][(/\ resp'.op = DELETE_FOLDER
        /\ \E k \in DOMAIN readFolders : readFolders[k].id = resp'.key
        /\ References(resp'.key) >= 1)
       => /\ resp'.status = 400
          /\ resp'.sketchCount = References(resp'.key)
          /\ UNCHANGED storeVars]_vars

C6_Witness ==
    /\ resp.op = DELETE_FOLDER
    /\ resp.status = 400
    /\ resp.sketchCount = 2

\* C7: at most one folder has isDefault = true.
C7_AtMostOneDefault == Cardinality(DefaultFolders(folders)) <= 1

C7_Witness ==
    /\ resp.op \in {POST_FOLDER, PUT_FOLDER}
    /\ resp.status = 200
    /\ resp.item[1].isDefault
    /\ Len(folders) = 3
    /\ folders[1].id # resp.key

\* C8: after every successful folder create, update or delete that leaves
\* at least one folder in the store, exactly one folder is marked default.
C8_SomeDefault ==
    (/\ resp.op \in {POST_FOLDER, PUT_FOLDER, DELETE_FOLDER}
     /\ resp.status = 200
     /\ Len(folders) > 0)
    => Cardinality(DefaultFolders(folders)) = 1

\* the folders other than the one with the given id, in store order
Remaining(fo, id) == SelectSeq(fo, LAMBDA f : f.id # id)

\* C9: a successful DELETE /api/folders/:id of the folder marked default
\* that leaves other folders makes the first remaining folder (in store
\* order) the only default and changes no other remaining folder.
C9_DefaultReassigned ==
    [][(/\ resp'.op = DELETE_FOLDER /\ resp'.status = 200
        /\ \E k \in DOMAIN folders : folders[k].id = resp'.key /\ folders[k].isDefault
        /\ Len(folders) > 1)
       => /\ Len(folders') = Len(folders) - 1
          /\ DefaultFolders(folders') = {1}
          /\ folders'[1] = [Remaining(folders, resp'.key)[1] EXCEPT !.isDefault = TRUE]
          /\ \A k \in 2..Len(folders') :
                folders'[k] = Remaining(folders, resp'.key)[k]]_vars

C9_Witness ==
    /\ resp.op = DELETE_FOLDER
    /\ resp.status = 200
    /\ resp.item[1].isDefault
    /\ Len(folders) = 2
    /\ DefaultFolders(folders) = {1}

\* C10: normalizeSketchUrl is idempotent: normalizing a URL that has
\* already been normalized leaves it unchanged.
C10_NormalizeIdempotent == [][passes >= 1 => url' = url]_vars

\* C16: every persisted author and title satisfies the sketch text-field
\* rule as stored: non-empty after trim, at most 100 (author) or 200 (title)
\* characters, no control characters.
C16_StoredTextFieldsValid ==
    \A i \in DOMAIN sketches :
        /\ Len(trim(sketches[i].author)) > 0
        /\ Len(sketches[i].author) <= 100
        /\ CharsOf(sketches[i].author) \cap ControlChars = {}
        /\ Len(trim(sketches[i].title)) > 0
        /\ Len(sketches[i].title) <= 200
        /\ CharsOf(sketches[i].title) \cap ControlChars = {}

\* C17: every persisted description is at most 500 characters long and has
\* no control characters.
C17_StoredDescriptionValid ==
    \A i \in DOMAIN sketches :
        /\ Len(sketches[i].description) <= 500
        /\ CharsOf(sketches[i].description) \cap ControlChars = {}

\* the body carries a width or a height outside 1..10000
BadDimension(body) ==
    \/ Has(body, "width") /\ body.width \notin 1..10000
    \/ Has(body, "height") /\ body.height \notin 1..10000

C18_FolderNamesValid ==
    \A k \in DOMAIN folders :
        /\ Len(trim(folders[k].name)) > 0
        /\ Len(folders[k].name) <= 100
        /\ CharsOf(folders[k].name) \cap ControlChars = {}

\* the ids of the folders, in store order
FolderIds(fo) == [k \in DOMAIN fo |-> fo[k].id]

C11_SlugCharset ==
    (/\ resp.op = GENERATE_SLUG
     /\ passes = 1
     /\ validateSketchField(resp.title, 200)
     /\ validateSketchField(resp.author, 100))
    => CharsOf(resp.slug) \subseteq (SlugChars \cup {"-"})

\* C12: after every successful mutation the config artifact is the
\* projection of the stores: its sketch list is the sketch store in the same
\* order with normalizeSketchUrl applied to each url, its folder list is the
\* folder store in the same order.
C12_ConfigIsProjection ==
    resp.status \in {200, 201}
    => /\ Len(config.sketches) = Len(sketches)
       /\ \A i \in DOMAIN sketches :
             config.sketches[i] =
                 [sketches[i] EXCEPT !.url = Normalized[sketches[i].url]]
       /\ config.folders = folders

C12_Witness ==
    /\ resp.op = PATCH_SKETCH
    /\ resp.status = 200
    /\ Len(sketches) = 2
    /\ Len(folders) = 2
    /\ config.sketches[2].url # sketches[2].url
    /\ config.sketches[1].week # config.sketches[2].week

\* C13: the slug in the 201 response of POST /api/sketches is the slug that
\* GET /api/sketches then reports for the created record.
C13_ResponseSlugIsListed ==
    (resp.op = POST_SKETCH /\ resp.status = 201)
    => resp.slug = GetSketches[Len(GetSketches)].slug

\* s contains a match of the script pattern of the sanitizer
ContainsScript(s) == \E i \in 1..Len(s) : ScriptMatchLen(s, i) > 0

\* the string fields of the records of both stores
PersistedStrings ==
    UNION {{sketches[i].author, sketches[i].title, sketches[i].description,
            sketches[i].week} : i \in DOMAIN sketches}
        \cup UNION {{folders[k].id, folders[k].name} : k \in DOMAIN folders}

\* C15: no persisted string field of a sketch or a folder contains a
\* <script>...</script> block, whatever nesting the request used and whether
\* the folder name was written by POST or by PUT.
C15_NoScriptPersisted == \A s \in PersistedStrings : ~ContainsScript(s)

\* the fields of the POST body b pass every field validator
FieldsValid(b) ==
    /\ validateSketchField(b.author, 100)
    /\ validateSketchField(b.title, 200)
    /\ validateUrl(b.url)
    /\ validateDimension(b.width)
    /\ validateDimension(b.height)
    /\ validateFolderId(b.week)

\* C14: a POST /api/sketches with valid fields whose week is the id of no
\* existing folder is answered 409 and writes nothing.
C14_FolderMismatchConflict ==
    [][\A b \in PostBodies :
          (/\ PostSketch(b)
           /\ FieldsValid(b)
           /\ \A k \in DOMAIN readFolders : readFolders[k].id # b.week)
          => (resp'.status = 409 /\ UNCHANGED storeVars)]_vars

\* C21: a store file that exists but does not parse counts as no data and
\* never fails a request: no handler answers 500, and readSketches returns
\* the empty sequence while sketches.json is unparsable
C21_ParseFailureIsNoData ==
    /\ resp.status # 500
    /\ (sketchesExists /\ SKETCHES_JSON \in unparsable) => readSketches = <<>>

\* the fields of a persisted sketch record
SketchFields == {"author", "title", "description", "url", "width", "height", "week"}

\* C22: the slug is never stored: every persisted record has exactly the
\* seven sketch fields, whatever else the request bodies carried, and the
\* slug in a POST or PATCH response is the one derived from the title and
\* author of the record the handler stored
C22_SlugNeverStored ==
    /\ \A i \in DOMAIN sketches : DOMAIN sketches[i] = SketchFields
    /\ (resp.op \in {POST_SKETCH, PATCH_SKETCH} /\ resp.item # <<>>)
          => resp.slug = Slug[resp.item[1].title, resp.item[1].author]

\* C24: a PATCH answered 200 leaves the store as long as it was, leaves
\* every record but the matched one as it was, leaves the fields of the
\* matched record that the body does not carry as they were, and leaves the
\* folder store alone
C24_PatchFrame ==
    [][(resp'.op = PATCH_SKETCH /\ resp'.status = 200) =>
          \A body \in PatchTrials :
             PatchSketch(resp'.key, body) =>
                LET idx == FindSlug(readSketches, resp'.key)
                IN /\ DOMAIN sketches' = DOMAIN readSketches
                   /\ \A i \in DOMAIN readSketches :
                         i # idx => sketches'[i] = readSketches[i]
                   /\ \A f \in SketchFields \ DOMAIN body :
                         sketches'[idx][f] = readSketches[idx][f]
                   /\ folders' = folders
                   /\ foldersExists' = foldersExists]_vars

\* a PATCH of the width alone has been answered 200 for the second of two
\* records, whose description was stored by its POST
C24_Witness ==
    /\ resp.op = PATCH_SKETCH
    /\ resp.status = 200
    /\ Len(sketches) = 2
    /\ resp.item = <<sketches[2]>>
    /\ sketches[2].description = ControlDescription
    /\ sketches[2].width = 10000

\* C25: a DELETE answered 200 removes exactly one record and keeps the
\* others in their order; a DELETE whose slug no record derives is answered
\* 404 and writes nothing
C25_DeleteRemovesOne ==
    [][resp'.op = DELETE_SKETCH =>
          IF FindSlug(readSketches, resp'.key) = 0
          THEN resp'.status = 404 /\ UNCHANGED storeVars
          ELSE /\ resp'.status = 200
               /\ \E i \in DOMAIN readSketches :
                     sketches' = SubSeq(readSketches, 1, i - 1)
                                    \o SubSeq(readSketches, i + 1, Len(readSketches))]_vars

\* the answers with the given status
Answers(status) == {i \in DOMAIN answered : answered[i].status = status}

\* C23: handlers run one after the other, so of the POST requests in flight
\* that derive one slug at most one is answered 201, and no update is lost:
\* every record a POST answered 201 for is in the store, and a width or
\* height a PATCH answered 200 for is on a stored record
C23_HandlersSerialized ==
    /\ \A i, j \in Answers(201) :
          answered[i].request.slug = answered[j].request.slug => i = j
    /\ Cardinality(Answers(201)) = Len(readSketches)
    /\ \A i \in Answers(200) :
          \E k \in DOMAIN readSketches :
             \A f \in DOMAIN answered[i].request.body :
                readSketches[k][f] = answered[i].request.body[f]

\* C26: an ip that has sent MAX_FAILS requests with bad credentials in a
\* row is locked: from the MAX_FAILS-th on, each of them is answered 429 and
\* the failure map holds a lock for the ip that has not run out
C26_LockedAfterMaxFails ==
    request.streak >= MAX_FAILS =>
       /\ request.status = 429
       /\ request.ip \in DOMAIN failedMap
       /\ failedMap[request.ip].until > now

\* the request reaches the credential check of authGuard
Checked(r) == ~PassedUnchecked(r.method, r.path)

\* C27: a request that authGuard checks and that carries the configured
\* user and password is passed on, whatever the failure map holds, and
\* leaves no failure record for its ip; a request without an Authorization
\* header leaves the failure map as it is
C27_ValidCredentialsPass ==
    [][now' = now =>
          /\ (Checked(request') /\
               request'.header = Header[env])
                => (request'.passed /\ request'.ip \notin DOMAIN failedMap')
          /\ request'.header = "" => failedMap' = failedMap]_vars

\* C28: with admin auth enabled, a POST, PATCH or DELETE on the sketch
\* routes that does not carry the configured credentials is not passed on
\* and leaves the store as it is, whatever its slug
C28_MutationsNeedCredentials ==
    [][(/\ now' = now
        /\ AUTH_ENABLED
        /\ request'.method \in {"POST", "PATCH", "DELETE"}
        /\ request'.path \in {SKETCHES_PATH} \cup {SKETCHES_PATH \o "/" \o slug : slug \in GuardSlugs}
        /\ request'.header # Header[env])
          => (~request'.passed /\ UNCHANGED storeVars)]_vars

\* a page is on screen
Rendered == viewer.screen \in {"sketch", "empty"}

\* C29: on a config with at least one folder, a page that has been opened
\* gets a sketch page or the empty-week page on screen after finitely many
\* redirects, and the week on screen is an existing folder
C29_RoutingTerminates ==
    /\ [](config.folders # <<>> /\ Rendered
            => FindFolder(config.folders, viewer.week) # 0)
    /\ (config.folders # <<>> /\ viewer.screen = "loading") ~> Rendered

\* C30: render never hands renderEmptyWeek an undefined folder, whose name
\* it would dereference
C30_EmptyWeekHasFolder == viewer.screen # "TypeError"

====
